---- MODULE Spec2Model ----
(***************************************************************************)
(* A model of the TimeLapse pipeline of src/timelapse.py: load_images,     *)
(* process_images (worker pool + sequential aggregation), render_images,   *)
(* render_video, sequenced by make_video.                                  *)
(*                                                                         *)
(* Python strings are sequences of one-character strings.  The degree sign *)
(* of the OCR text is written "deg".  Python floats are exact rationals    *)
(* <<numerator, denominator>>.  None is the empty sequence and an integer  *)
(* attribute v that may be None is <<v>>.                                  *)
(***************************************************************************)
EXTENDS Integers, Sequences, FiniteSets, TLC

\* ---------------------------------------------------------------- bounds
\* files of the directory in the specification Spec
MaxFiles == 3
\* files of the directory in the specification SpecFrames
MaxFrames == 10
\* largest worker pool (process_threads)
MaxWorkers == 2

\* ------------------------------------------------- configuration defaults
graph_height == 650
graph_width == 4086
padding == 60
graph_height_margin == 75
graph_width_margin == 190
valid_file_extensions == <<".png", ".jpg", ".jpeg">>

None == <<>>
Some(v) == <<v>>

\* ------------------------------------------------------- python built-ins
DigitChars == <<"0", "1", "2", "3", "4", "5", "6", "7", "8", "9">>
IsDigit(c) == \E d \in 1..Len(DigitChars) : DigitChars[d] = c
DigitVal(c) == (CHOOSE d \in 1..Len(DigitChars) : DigitChars[d] = c) - 1

RECURSIVE str(_)
\* str(n) of an integer
str(n) ==
    IF n < 0 THEN <<"-">> \o str(0 - n)
    ELSE IF n < 10 THEN <<DigitChars[n + 1]>>
    ELSE str(n \div 10) \o <<DigitChars[(n % 10) + 1]>>

RECURSIVE zeros(_)
zeros(k) == IF k <= 0 THEN <<>> ELSE <<"0">> \o zeros(k - 1)

\* format(n, '0' + str(width)) of a non-negative integer: zero padding on the
\* left up to width characters, never truncating
format(n, width) == zeros(width - Len(str(n))) \o str(n)

RECURSIVE digits_value(_)
digits_value(s) ==
    IF Len(s) = 0 THEN 0
    ELSE 10 * digits_value(SubSeq(s, 1, Len(s) - 1)) + DigitVal(s[Len(s)])

RECURSIVE strip(_)
\* str.strip() for the blank character
strip(s) ==
    IF Len(s) > 0 /\ s[1] = " " THEN strip(Tail(s))
    ELSE IF Len(s) > 0 /\ s[Len(s)] = " " THEN strip(SubSeq(s, 1, Len(s) - 1))
    ELSE s

\* int(s) of a string: blanks stripped, an optional sign, then decimal digits;
\* anything else raises ValueError
int(s) ==
    LET t == strip(s)
        neg == Len(t) > 0 /\ t[1] = "-"
        body == IF Len(t) > 0 /\ t[1] \in {"-", "+"} THEN Tail(t) ELSE t
    IN  IF Len(body) > 0 /\ \A i \in 1..Len(body) : IsDigit(body[i])
        THEN [err |-> "", val |-> IF neg THEN 0 - digits_value(body) ELSE digits_value(body)]
        ELSE [err |-> "ValueError", val |-> 0]

RECURSIVE split(_, _)
\* s.split(sep) for a one-character separator
split(s, sep) ==
    IF \E i \in 1..Len(s) : s[i] = sep
    THEN LET i == CHOOSE k \in 1..Len(s) : s[k] = sep /\ \A j \in 1..(k - 1) : s[j] # sep
         IN  <<SubSeq(s, 1, i - 1)>> \o split(SubSeq(s, i + 1, Len(s)), sep)
    ELSE <<s>>

\* str.lower() of a file extension
lower(e) ==
    CASE e = ".JPG" -> ".jpg"
      [] e = ".PNG" -> ".png"
      [] e = ".JPEG" -> ".jpeg"
      [] OTHER -> e

\* ---------------------------------------------------------------- parser
\* the default parser: the text after the second blank-separated word that
\* follows the first degree sign; IndexError when there is none
parse_temperature_text(input_text) ==
    LET degrees == split(input_text, "deg")
    IN  IF Len(degrees) < 2 THEN [err |-> "IndexError", val |-> <<>>]
        ELSE LET words == split(degrees[2], " ")
             IN  IF Len(words) < 2 THEN [err |-> "IndexError", val |-> <<>>]
                 ELSE [err |-> "", val |-> words[2]]

\* int(parser(text)): the parser called on the OCR text, then converted
parsed_temperature(text) ==
    LET p == parse_temperature_text(text)
    IN  IF p.err # "" THEN [err |-> p.err, val |-> 0] ELSE int(p.val)

\* ------------------------------------------------------------ environment
\* what the OCR engine may return for a photograph showing temperature t:
\* a clean reading, a reading without degree signs, a reading with a letter
\* in place of a digit
GoodText(t) == <<"5", "deg", "C", " ">> \o str(t) \o <<"deg", "F">>
NoDegreeText == <<"5", " ", "C">>
GarbledText == <<"5", "deg", "C", " ", "3", "O", "deg", "F">>
UnreadableTexts == {NoDegreeText, GarbledText}

\* a line that is no number
JunkLine == <<"n", "/", "a">>

\* the kinds of file a directory holds
Catalog ==
    { [ext |-> ".jpg", shown |-> 30, ocr |-> {GoodText(30)}],
      [ext |-> ".PNG", shown |-> 35, ocr |-> UnreadableTexts],
      [ext |-> ".txt", shown |-> 30, ocr |-> {NoDegreeText}] }

\* the values of the attribute temperature_text_parser: the default function
\* object, or (set through the keyword arguments) a string
ParserValues ==
    { [callable |-> TRUE, text |-> <<>>],
      [callable |-> FALSE, text |-> <<"4", "1">>],
      [callable |-> FALSE, text |-> JunkLine] }

VARIABLES
    files,                    \* file name -> [ext, shown, ocr]: every file the camera wrote
    dir,                      \* the file names now in images_directory
    temperature_text_parser,
    process_threads,
    image_series,
    deg_min,
    deg_max,
    pixels_per_degree,
    total_frames,
    pc,                       \* where make_video stands
    with_graph,               \* the argument of the running make_video
    tasks,                    \* the tasks of the pool's map
    completed,                \* task indices in the order the tasks of the latest map finished
    raised,                   \* the first exception a task raised
    saved,                    \* the files the latest render_images wrote, in writing order
    ffmpeg,                   \* the latest encoder invocation
    outcome,                  \* how the latest make_video ended
    trace                     \* the methods the latest make_video entered

vars == <<files, dir, temperature_text_parser, process_threads, image_series,
          deg_min, deg_max, pixels_per_degree, total_frames, pc, with_graph,
          tasks, completed, raised, saved, ffmpeg, outcome, trace>>

config == <<files, temperature_text_parser, process_threads>>
computed == <<deg_min, deg_max, pixels_per_degree, total_frames>>
pool == <<tasks, completed, raised>>

\* the attributes __init__ sets, before the keyword arguments
InitObject ==
    /\ image_series = <<>>
    /\ deg_min = None
    /\ deg_max = None
    /\ pixels_per_degree = <<1, 1>>
    /\ total_frames = 1
    /\ pc = "idle"
    /\ with_graph = TRUE
    /\ tasks = <<>>
    /\ completed = <<>>
    /\ raised = ""
    /\ saved = <<>>
    /\ ffmpeg = None
    /\ outcome = "none"
    /\ trace = <<>>

Init ==
    /\ files \in [1..MaxFiles -> Catalog]
    /\ dir = 1..MaxFiles
    /\ temperature_text_parser \in ParserValues
    /\ process_threads \in 1..MaxWorkers
    /\ InitObject

\* a long series: every file is an image, the temperatures alternate, the OCR
\* reads cleanly, one worker
FrameFile(k) ==
    [ext |-> IF k % 3 = 0 THEN ".JPEG" ELSE ".jpg",
     shown |-> IF k % 2 = 1 THEN 30 ELSE 35,
     ocr |-> {GoodText(IF k % 2 = 1 THEN 30 ELSE 35)}]

InitFrames ==
    /\ files = [k \in 1..MaxFrames |-> FrameFile(k)]
    /\ dir = 1..MaxFrames
    /\ temperature_text_parser \in ParserValues
    /\ process_threads = 1
    /\ InitObject

\* ------------------------------------------------------------ load_images
\* filename.lower().endswith(tuple(self.valid_file_extensions))
is_valid_file(name) ==
    \E e \in 1..Len(valid_file_extensions) : lower(files[name].ext) = valid_file_extensions[e]

\* the order value of a file under ORDER_NAME: the file name (the camera
\* numbers its files with a fixed width, so names compare as their numbers)
order_value(name) == name

RECURSIVE sorted(_)
\* sorted(file_list, key=lambda item: item['order'])
sorted(file_list) ==
    IF file_list = {} THEN <<>>
    ELSE LET first == CHOOSE x \in file_list : \A y \in file_list : x.order <= y.order
         IN  <<first>> \o sorted(file_list \ {first})

loaded_series ==
    LET file_list == { [file_name |-> n, order |-> order_value(n)] : n \in {m \in dir : is_valid_file(m)} }
        ordered == sorted(file_list)
    IN  [i \in 1..Len(ordered) |->
            [file_name |-> ordered[i].file_name, order |-> ordered[i].order, index |-> i,
             temp |-> None, temps |-> <<>>, image |-> None]]

\* make_video is called and runs its first statement, load_images
load_images(g) ==
    /\ pc = "idle"
    /\ with_graph' = g
    /\ image_series' = loaded_series
    /\ pc' = "loaded"
    /\ trace' = <<"load_images">>
    /\ outcome' = "running"
    /\ saved' = <<>>
    /\ ffmpeg' = None
    /\ completed' = <<>>
    /\ UNCHANGED <<config, dir, computed, tasks, raised>>

\* --------------------------------------------------------- process_images
\* Image.open of a source file
open_image(name) == [src |-> name, box |-> FALSE, points |-> <<>>]

\* process_images enters: the pool is created and map submits one task for
\* every record of the series
process_images_start ==
    /\ pc = "loaded"
    /\ with_graph
    /\ pc' = "pool"
    /\ trace' = Append(trace, "process_images")
    /\ tasks' = [i \in 1..Len(image_series) |->
                    [file_meta |-> image_series[i], state |-> "queued",
                     text |-> <<>>, line |-> <<>>, temp |-> None]]
    /\ completed' = <<>>
    /\ raised' = ""
    /\ UNCHANGED <<config, dir, image_series, computed, with_graph, saved, ffmpeg, outcome>>

in_flight == {i \in 1..Len(tasks) : tasks[i].state \in {"running", "prompt"}}

\* an idle worker of the pool takes the next task of the queue (tasks are
\* handed out one at a time, in the order of the iterable; at most
\* process_threads of them run at once)
dispatch(i) ==
    /\ pc = "pool"
    /\ tasks[i].state = "queued"
    /\ \A j \in 1..(i - 1) : tasks[j].state # "queued"
    /\ Cardinality(in_flight) < process_threads
    /\ tasks' = [tasks EXCEPT ![i].state = "running"]
    /\ UNCHANGED <<config, dir, image_series, computed, pc, with_graph, completed,
                   raised, saved, ffmpeg, outcome, trace>>

\* the try block of process_image: int(self.temperature_text_parser)
try_temperature ==
    IF temperature_text_parser.callable
    THEN [err |-> "TypeError", val |-> 0]
    ELSE int(temperature_text_parser.text)

\* a task ends: it returns the temperature t or raises err
finish(i, text, line, t, err) ==
    /\ tasks' = [tasks EXCEPT ![i] =
                    [file_meta |-> @.file_meta,
                     state |-> IF err = "" THEN "done" ELSE "failed",
                     text |-> text, line |-> line,
                     temp |-> IF err = "" THEN Some(t) ELSE None]]
    /\ completed' = Append(completed, i)
    /\ raised' = IF raised = "" THEN err ELSE raised

\* process_image up to its return, its exception or its prompt: the image is
\* opened and cropped, the OCR engine returns text, the try block runs
process_image(i, text) ==
    /\ pc = "pool"
    /\ tasks[i].state = "running"
    /\ text \in files[tasks[i].file_meta.file_name].ocr
    /\ LET r == try_temperature
       IN  IF r.err \in {"IndexError", "ValueError"}
           THEN /\ tasks' = [tasks EXCEPT ![i].state = "prompt", ![i].text = text]
                /\ UNCHANGED <<completed, raised>>
           ELSE finish(i, text, <<>>, r.val, r.err)
    /\ UNCHANGED <<config, dir, image_series, computed, pc, with_graph, saved,
                   ffmpeg, outcome, trace>>

\* what input() may give for the photograph of a task: the temperature the
\* photograph shows, or a line that is no number
input_lines(i) == {str(files[tasks[i].file_meta.file_name].shown), JunkLine}

\* the except block of process_image: temp = int(input(...))
enter_temperature(i, line) ==
    /\ pc = "pool"
    /\ tasks[i].state = "prompt"
    /\ line \in input_lines(i)
    /\ LET r == int(line)
       IN  finish(i, tasks[i].text, line, r.val, r.err)
    /\ UNCHANGED <<config, dir, image_series, computed, pc, with_graph, saved,
                   ffmpeg, outcome, trace>>

\* the dictionary process_image returns
task_result(t) ==
    [file_name |-> t.file_meta.file_name, order |-> t.file_meta.order,
     index |-> t.file_meta.index, temp |-> t.temp, temps |-> <<>>,
     image |-> Some(open_image(t.file_meta.file_name))]

\* the list p.map returns when every task returned, in the order the tasks
\* finished
map_as_completed(ts, finished) == [k \in 1..Len(finished) |-> task_result(ts[finished[k]])]

\* the list p.map returns when every task returned: the results in the order
\* of the iterable it was given
pool_map(ts, finished) == [k \in 1..Len(ts) |-> task_result(ts[k])]

RECURSIVE phase_b(_, _, _)
\* the loop of process_images over the records k..N: acc holds the series,
\* current_temps and the running minimum and maximum
phase_b(k, n, acc) ==
    IF k > n THEN acc
    ELSE LET t == acc.series[k].temp[1]
             hi == IF acc.deg_max = None \/ t > acc.deg_max[1] THEN Some(t) ELSE acc.deg_max
             lo == IF acc.deg_min = None \/ t < acc.deg_min[1] THEN Some(t) ELSE acc.deg_min
             cur == Append(acc.current_temps, t)
         IN  phase_b(k + 1, n,
                     [series |-> [acc.series EXCEPT ![k].temps = cur],
                      current_temps |-> cur, deg_min |-> lo, deg_max |-> hi])

\* compute_pixels_per_temp: y_axis_height / temp_range
compute_pixels_per_temp(lo, hi) ==
    IF lo = None \/ hi = None THEN [err |-> "TypeError", val |-> <<0, 1>>]
    ELSE IF hi[1] - lo[1] = 0 THEN [err |-> "ZeroDivisionError", val |-> <<0, 1>>]
    ELSE [err |-> "", val |-> <<graph_height - (padding * 2), hi[1] - lo[1]>>]

\* every task has ended: map returns or raises, then the rest of
\* process_images runs
process_images_finish ==
    /\ pc = "pool"
    /\ \A i \in 1..Len(tasks) : tasks[i].state \in {"done", "failed"}
    /\ tasks' = <<>>
    /\ raised' = ""
    /\ UNCHANGED completed
    /\ IF raised # ""
       THEN /\ pc' = "idle"
            /\ outcome' = raised
            /\ UNCHANGED <<image_series, computed>>
       ELSE LET mapped == pool_map(tasks, completed)
                b == phase_b(1, Len(mapped),
                             [series |-> mapped, current_temps |-> <<>>,
                              deg_min |-> deg_min, deg_max |-> deg_max])
                ppd == compute_pixels_per_temp(b.deg_min, b.deg_max)
            IN  /\ image_series' = b.series
                /\ deg_min' = b.deg_min
                /\ deg_max' = b.deg_max
                /\ IF ppd.err # ""
                   THEN /\ pc' = "idle"
                        /\ outcome' = ppd.err
                        /\ UNCHANGED <<pixels_per_degree, total_frames>>
                   ELSE /\ pc' = "processed"
                        /\ pixels_per_degree' = ppd.val
                        /\ total_frames' = Len(b.series)
                        /\ UNCHANGED outcome
    /\ UNCHANGED <<config, dir, with_graph, saved, ffmpeg, trace>>

\* ---------------------------------------------------------- graph drawing
\* get_temp_y_point, a rational
get_temp_y_point(temp) ==
    <<(graph_height_margin + graph_height - padding) * pixels_per_degree[2]
        - (temp - deg_min[1]) * pixels_per_degree[1],
      pixels_per_degree[2]>>

\* get_x_point, a rational; its denominator is len(self.image_series) - 1
get_x_point(index) ==
    LET x_axis_length == graph_width - (padding * 2)
        frames == Len(image_series) - 1
    IN  <<(graph_width_margin + padding) * frames + x_axis_length * index, frames>>

\* the points add_temps would draw with the spacing taken from the history
\* of the frame
add_temps_per_history(temperature_points) ==
    [k \in 1..Len(temperature_points) |->
        [x |-> <<(graph_width_margin + padding) * (Len(temperature_points) - 1)
                    + (graph_width - (padding * 2)) * (k - 1),
                 Len(temperature_points) - 1>>,
         y |-> get_temp_y_point(temperature_points[k])]]

\* the points add_temps draws for a history, in drawing order
add_temps(temperature_points) ==
    [k \in 1..Len(temperature_points) |->
        [x |-> get_x_point(k - 1), y |-> get_temp_y_point(temperature_points[k])]]

\* draw_graph: box and grid, then the points, drawn on the record's image
draw_graph(img) ==
    [img EXCEPT !.image = Some([src |-> img.image[1].src, box |-> TRUE,
                                points |-> add_temps(img.temps)])]

\* ---------------------------------------------------------- render_images
\* the digits of the frame count, one too few from ten frames on
max_digits_short(series) == Len(str(Len(series) - 1))

\* len(str(len(self.image_series)))
max_digits(series) == Len(str(Len(series)))

new_filename(index, width) == <<"TIMELAPSE">> \o format(index, width) \o <<".JPG">>

\* the source of the plain copy taken for the record's position in the series
copy_source_by_index(image_obj) == image_obj.index

\* the source file shutil.copyfile reads for a record
copy_source(image_obj) == image_obj.file_name

\* the frames of the graph mode: every record with its graph drawn
graph_frames == [k \in 1..Len(image_series) |-> draw_graph(image_series[k])]

render_images ==
    /\ \/ pc = "loaded" /\ ~with_graph
       \/ pc = "processed"
    /\ trace' = Append(trace, "render_images")
    /\ IF with_graph
       THEN IF Len(image_series) = 1
            \* get_x_point divides by zero at the first point of the first
            \* frame, whose box and grid are drawn already
            THEN /\ image_series' = [image_series EXCEPT ![1].image =
                                        Some([src |-> @[1].src, box |-> TRUE, points |-> <<>>])]
                 /\ saved' = <<>>
                 /\ pc' = "idle"
                 /\ outcome' = "ZeroDivisionError"
            ELSE /\ image_series' = graph_frames
                 /\ saved' = [k \in 1..Len(image_series) |->
                                 [name |-> new_filename(image_series[k].index, max_digits(image_series)),
                                  content |-> graph_frames[k].image[1]]]
                 /\ pc' = "rendered"
                 /\ UNCHANGED outcome
       ELSE /\ saved' = [k \in 1..Len(image_series) |->
                            [name |-> new_filename(k, max_digits(image_series)),
                             content |-> open_image(copy_source(image_series[k]))]]
            /\ pc' = "rendered"
            /\ UNCHANGED <<image_series, outcome>>
    /\ UNCHANGED <<config, dir, computed, with_graph, pool, ffmpeg>>

\* ----------------------------------------------------------- render_video
\* the width of the encoder's input pattern TIMELAPSE%0<width>d.JPG
pattern_digits(series) == Len(str(Len(series)))

\* os.system runs the encoder, which exits with status; "Done." is printed and
\* make_video returns
render_video(status) ==
    /\ pc = "rendered"
    /\ trace' = Append(trace, "render_video")
    /\ ffmpeg' = Some([width |-> pattern_digits(image_series), start_number |-> 1,
                       exit_status |-> status])
    /\ pc' = "idle"
    /\ outcome' = "returned"
    /\ UNCHANGED <<config, dir, image_series, computed, with_graph, pool, saved>>

\* ------------------------------------------------------------ environment
\* between two runs the oldest photograph is removed from the directory
delete_oldest ==
    /\ pc = "idle"
    /\ dir # {}
    /\ dir' = dir \ {CHOOSE n \in dir : \A m \in dir : n <= m}
    /\ UNCHANGED <<config, image_series, computed, pc, with_graph, pool, saved,
                   ffmpeg, outcome, trace>>

Next ==
    \/ \E g \in BOOLEAN : load_images(g)
    \/ process_images_start
    \/ \E i \in 1..Len(tasks) : dispatch(i)
    \/ \E i \in 1..Len(tasks) : \E text \in files[tasks[i].file_meta.file_name].ocr : process_image(i, text)
    \/ \E i \in 1..Len(tasks) : \E line \in input_lines(i) : enter_temperature(i, line)
    \/ process_images_finish
    \/ render_images
    \/ \E status \in {0, 1} : render_video(status)
    \/ delete_oldest

Spec == Init /\ [][Next]_vars

SpecFrames == InitFrames /\ [][Next]_vars

\* ================================================================ claims
ValidNames == {n \in dir : is_valid_file(n)}
SeriesTemps == {image_series[k].temp[1] : k \in 1..Len(image_series)}
Returned == pc = "idle" /\ outcome = "returned"
IsNumericParser == ~temperature_text_parser.callable /\ int(temperature_text_parser.text).err = ""

\* C1: when process_images has completed, the record at every index i has
\* index i, holds the temperature its own task returned, and has a history of
\* length i whose j-th element is the temperature of record j, whatever the
\* order in which the tasks finished.
HistoriesInIndexOrder ==
    (with_graph /\ pc \in {"processed", "rendered"}) =>
        /\ Len(image_series) = Cardinality(ValidNames)
        /\ \A i \in 1..Len(image_series) :
            /\ image_series[i].index = i
            /\ image_series[i].file_name \in ValidNames
            /\ Cardinality({n \in ValidNames : n < image_series[i].file_name}) = i - 1
            /\ image_series[i].temp =
                   Some(IF IsNumericParser THEN int(temperature_text_parser.text).val
                        ELSE files[image_series[i].file_name].shown)
            /\ Len(image_series[i].temps) = i
            /\ \A j \in 1..i : image_series[i].temps[j] = image_series[j].temp[1]

\* C1 witness: process_images completed on three images whose tasks did not
\* finish in index order
HistoriesWitness ==
    /\ pc = "processed"
    /\ Len(image_series) >= 3
    /\ \E a, b \in 1..Len(completed) : a < b /\ completed[a] > completed[b]
    /\ image_series[1].temp # image_series[2].temp

\* C2: after a completed process_images, deg_min and deg_max are the minimum
\* and the maximum of the temperatures of the series.
MinMaxAreSeriesExtremes ==
    (pc = "processed" /\ Len(image_series) >= 1) =>
        /\ deg_min # None /\ deg_max # None
        /\ deg_min[1] \in SeriesTemps /\ \A t \in SeriesTemps : deg_min[1] <= t
        /\ deg_max[1] \in SeriesTemps /\ \A t \in SeriesTemps : t <= deg_max[1]

\* C3: a task of process_image returns the integer the parser produced from
\* the OCR text when the parser succeeds, asks the user only when the parser
\* fails and then returns the integer entered, and raises only when the entered
\* line is no integer.
TemperatureFollowsParser ==
    \A i \in 1..Len(tasks) :
        LET p == parsed_temperature(tasks[i].text)
            entered == int(tasks[i].line)
        IN  /\ tasks[i].state = "prompt" => p.err # ""
            /\ tasks[i].state = "done" =>
                   IF p.err = "" THEN tasks[i].temp = Some(p.val) /\ tasks[i].line = <<>>
                   ELSE entered.err = "" /\ tasks[i].temp = Some(entered.val)
            /\ tasks[i].state = "failed" => (p.err # "" /\ entered.err # "")

BatchDrained ==
    /\ pc = "pool"
    /\ \A i \in 1..Len(tasks) : tasks[i].state \in {"done", "failed"}

\* C4: when the batch has drained and the parser failed on the text of one
\* image, every other image whose text the parser reads has completed with
\* the temperature parsed from its own text.
ParserFailureLeavesOthersIntact ==
    BatchDrained =>
        \A i \in 1..Len(tasks) :
            parsed_temperature(tasks[i].text).err # "" =>
                \A j \in 1..Len(tasks) :
                    (j # i /\ parsed_temperature(tasks[j].text).err = "") =>
                        /\ tasks[j].state = "done"
                        /\ tasks[j].temp = Some(parsed_temperature(tasks[j].text).val)

\* C5: when load_images found no file with an allowed extension, make_video
\* has ended with the "no matching files" failure and entered no other method.
EmptyDirectoryFailsBeforeProcessing ==
    (trace # <<>> /\ image_series = <<>>) =>
        /\ pc = "idle"
        /\ outcome = "no matching files"
        /\ trace = <<"load_images">>

\* C6: the files render_images wrote are, in writing order, the frames 1..N,
\* the k-th named TIMELAPSE, k zero-padded to the number of decimal digits of
\* N, .JPG; and the pattern given to the encoder has that width and start
\* number 1, so that every index 1..N names exactly one written file.
DecimalDigits(n) == IF n = 0 THEN 1 ELSE CHOOSE w \in 1..9 : 10 ^ (w - 1) <= n /\ n < 10 ^ w
IsFrameName(name, k, w) ==
    /\ Len(name) = w + 2
    /\ name[1] = "TIMELAPSE"
    /\ name[Len(name)] = ".JPG"
    /\ \A d \in 2..(Len(name) - 1) : IsDigit(name[d])
    /\ digits_value(SubSeq(name, 2, Len(name) - 1)) = k
PatternName(width, number) == <<"TIMELAPSE">> \o format(number, width) \o <<".JPG">>
EncoderFailureIsSurfaced ==
    (ffmpeg # None /\ ffmpeg[1].exit_status # 0) => outcome # "returned"

\* C8: after render_images without graph, the k-th written file holds the
\* unmodified photograph of the record at index k, and the records are the
\* ones load_images built.
Photograph(n) == [src |-> n, box |-> FALSE, points |-> <<>>]
PlainRenderCopiesSources ==
    (~with_graph /\ (pc = "rendered" \/ Returned)) =>
        /\ Len(saved) = Len(image_series)
        /\ \A k \in 1..Len(image_series) :
            /\ image_series[k].index = k
            /\ saved[k].content = Photograph(image_series[k].file_name)
        /\ pc = "rendered" => image_series = loaded_series

\* C8 witness: a plain render of two or more photographs whose file names
\* differ from their indices
PlainRenderWitness ==
    /\ ~with_graph
    /\ pc = "rendered"
    /\ Len(saved) >= 2
    /\ \E k \in 1..Len(image_series) : image_series[k].file_name # k

\* C9: the graph pipeline never ends in a division by zero.
NoDivisionByZero == outcome # "ZeroDivisionError"

\* C10: in a graph render of N >= 2 frames, the point at zero-based position
\* i of every frame lies at width_margin + padding + i * (graph_width -
\* 2 * padding) / (N - 1): the same x in every frame that has the position,
\* the left edge for position 0 and the right edge for position N - 1.
XIs(x, num, den) == x[2] > 0 /\ x[1] * den = num * x[2]
GraphSpacingFixed ==
    (with_graph /\ (pc = "rendered" \/ Returned) /\ Len(image_series) >= 2) =>
        LET n == Len(image_series)
            last == saved[n].content.points
        IN  /\ \A k \in 1..n :
                LET pts == saved[k].content.points
                IN  /\ Len(pts) = k
                    /\ \A i \in 1..k :
                        /\ XIs(pts[i].x,
                               (graph_width_margin + padding) * (n - 1)
                                   + (i - 1) * (graph_width - 2 * padding), n - 1)
                        /\ XIs(pts[i].x, last[i].x[1], last[i].x[2])
                    /\ XIs(pts[1].x, graph_width_margin + padding, 1)
            /\ XIs(last[n].x, graph_width_margin + graph_width - padding, 1)

\* C10 witness: a graph render of three or more frames
GraphSpacingWitness ==
    /\ with_graph
    /\ pc = "rendered"
    /\ Len(saved) >= 3

====
